---- MODULE Spec2Model ----
(***************************************************************************)
(* Model of morr, a minimal terminal pager.                                *)
(*   src/src/line_reader.rs : LinesRange, LineReader (the lazy             *)
(*                            bidirectional line index)                    *)
(*   src/src/main.rs        : NormalMode (the navigator) and the main loop *)
(* Line numbers in the comments refer to these two files.  main.rs names   *)
(* the index `Buffer`; the only index under src/ is `LineReader`, which is *)
(* modelled here.                                                          *)
(***************************************************************************)
EXTENDS Integers, Sequences, FiniteSets, TLC

(***************************************************************************)
(* Bounds of the model.                                                    *)
(***************************************************************************)
MaxLen == 4
MaxOrd == 5
MaxRows == 3

(***************************************************************************)
(* Program constants.  usize is modelled with 16 bits: UsizeMax is         *)
(* usize::max_value() (line_reader.rs:112), the "before first byte"        *)
(* sentinel.  NL is b'\n' (line_reader.rs:113).                            *)
(***************************************************************************)
UsizeMax == 65535
NL == 10

\* the bytes a file is made of here: the terminator, the letter 'a' and
\* 0xFF, a byte that occurs in no UTF-8 text
Bytes == {NL, 97, 255}

Min(a, b) == IF a <= b THEN a ELSE b

\* usize::checked_sub(..).unwrap_or(0)
SatSub(a, b) == IF a >= b THEN a - b ELSE 0

\* usize::overflowing_add(1).0
WrapInc(a) == (a + 1) % (UsizeMax + 1)

Contents == UNION {[1..n -> Bytes] : n \in 0..MaxLen}

(***************************************************************************)
(* LinesRange and the raw Range<usize> helpers (line_reader.rs:7-91).      *)
(***************************************************************************)
Rng(s, e) == [start |-> s, end |-> e]

pos(range) == [sign |-> "Pos", range |-> range]

neg(range) == [sign |-> "Neg", range |-> range]

shiftr(range, by) == Rng(range.start + by, range.end + by)

shiftlEndUnclamped(range, by) ==
    Rng(SatSub(range.start, by), range.end - by)

shiftlWidthLost(range, by) ==
    Rng(SatSub(range.start, by), SatSub(range.end, by))

shiftl(range, by) ==
    LET s == SatSub(range.start, by)
        diff == range.start - s
    IN  Rng(s, range.end - diff)

extendr(range, by) == Rng(range.start, range.end + by)

extendl(range, by) == Rng(SatSub(range.start, by), range.end)

LinesRange_shiftl(self, by) ==
    IF self.sign = "Pos" THEN pos(shiftl(self.range, by))
                         ELSE neg(shiftr(self.range, by))

LinesRange_shiftrSameRaw(self, by) ==
    [sign |-> self.sign, range |-> shiftr(self.range, by)]

LinesRange_shiftr(self, by) ==
    IF self.sign = "Pos" THEN pos(shiftr(self.range, by))
                         ELSE neg(shiftl(self.range, by))

LinesRange_extendlSameRaw(self, by) ==
    [sign |-> self.sign, range |-> extendl(self.range, by)]

LinesRange_extendl(self, by) ==
    IF self.sign = "Pos" THEN pos(extendl(self.range, by))
                         ELSE neg(extendr(self.range, by))

LinesRange_extendr(self, by) ==
    IF self.sign = "Pos" THEN pos(extendr(self.range, by))
                         ELSE neg(extendl(self.range, by))

invertedKeepsBounds(range, len) == range

invertedOffByOne(range, len) ==
    Rng(SatSub(len, range.end + 1), SatSub(len, range.start + 1))

inverted(range, len) ==
    Rng(SatSub(len, range.end), SatSub(len, range.start))

limitNoClamp(range, to) == Rng(range.start, Min(to, range.end))

limit(range, to) ==
    Rng(Min(SatSub(to, 1), range.start), Min(to, range.end))

(***************************************************************************)
(* The boundary iterator of LineReader::new (line_reader.rs:112-114):      *)
(*   once(usize::MAX) . memchr_iter('\n', buf) . once(buf.len())           *)
(* Eols(b) is the whole sequence it can yield; the iterator's state is the *)
(* pair of 1-based positions [front, back] of what is left, consumed at    *)
(* the front by next() and at the back by rev().next().                    *)
(***************************************************************************)
RECURSIVE NewlineOffsets(_, _)
NewlineOffsets(b, i) ==
    IF i > Len(b) THEN <<>>
    ELSE IF b[i] = NL THEN <<i - 1>> \o NewlineOffsets(b, i + 1)
                      ELSE NewlineOffsets(b, i + 1)

Eols(b) == <<UsizeMax>> \o NewlineOffsets(b, 1) \o <<Len(b)>>

Reverse(s) == [i \in 1..Len(s) |-> s[Len(s) + 1 - i]]

LineReader_new(b) ==
    [eols_forw |-> <<>>,
     eols_back |-> <<>>,
     eols_iter |-> [front |-> 1, back |-> Len(Eols(b))],
     full      |-> FALSE]

(***************************************************************************)
(* LineReader::extend (line_reader.rs:124-141).  dir is "next" for the     *)
(* iterator itself and "rev" for (&mut it).rev().  The result carries the  *)
(* grown cache, the advanced iterator and the returned bool.               *)
(***************************************************************************)
RECURSIVE extend_loop(_, _, _, _, _)
extend_loop(b, eols, it, dir, n) ==
    IF n = 0 THEN [eols |-> eols, it |-> it, exhausted |-> FALSE]
    ELSE IF it.front > it.back
         THEN [eols |-> eols, it |-> it, exhausted |-> TRUE]
         ELSE IF dir = "next"
              THEN extend_loop(b, Append(eols, Eols(b)[it.front]),
                               [it EXCEPT !.front = @ + 1], dir, n - 1)
              ELSE extend_loop(b, Append(eols, Eols(b)[it.back]),
                               [it EXCEPT !.back = @ - 1], dir, n - 1)

\* line_reader.rs:135-138: what extend returns after its loop
extend_ret(r, stop) ==
    [eols |-> r.eols, it |-> r.it,
     ret  |-> IF r.exhausted THEN TRUE
              ELSE Len(r.eols) > 0 /\ r.eols[Len(r.eols)] = stop]

extendEager(b, eols, it, dir, last_requested_line, stop) ==
    IF last_requested_line + 2 >= Len(eols)
    THEN extend_ret(extend_loop(b, eols, it, dir,
                                (last_requested_line + 2) - Len(eols)), stop)
    ELSE [eols |-> eols, it |-> it, ret |-> FALSE]

extend(b, eols, it, dir, last_requested_line, stop) ==
    IF last_requested_line + 1 >= Len(eols)
    THEN extend_ret(extend_loop(b, eols, it, dir,
                                (last_requested_line + 1) - Len(eols)), stop)
    ELSE [eols |-> eols, it |-> it, ret |-> FALSE]

(***************************************************************************)
(* LineReader::lines (line_reader.rs:203-211): one slice per pair of       *)
(* consecutive boundaries, buf[p0+1 .. p1].  The slice index and the       *)
(* from_utf8(..).unwrap() can panic.                                       *)
(***************************************************************************)
\* str::from_utf8 succeeds (line_reader.rs:208): over Bytes, no 0xFF
ValidUtf8(s) == \A i \in 1..Len(s) : s[i] < 128

LineOK(b, p0, p1) ==
    /\ WrapInc(p0) <= p1
    /\ p1 <= Len(b)
    /\ ValidUtf8(SubSeq(b, WrapInc(p0) + 1, p1))

\* the windows(2) of a slice of boundaries
Windows(requested_eols) ==
    IF Len(requested_eols) = 0 THEN {} ELSE 1..(Len(requested_eols) - 1)

lines(b, requested_eols) ==
    IF \A i \in Windows(requested_eols) :
          LineOK(b, requested_eols[i], requested_eols[i + 1])
    THEN [ok |-> TRUE,
          lines |-> [i \in Windows(requested_eols) |->
                        SubSeq(b, WrapInc(requested_eols[i]) + 1,
                               requested_eols[i + 1])]]
    ELSE [ok |-> FALSE, lines |-> <<>>]

(***************************************************************************)
(* ReadLines (line_reader.rs:93-97), with a panic flag for an aborted      *)
(* call.                                                                   *)
(***************************************************************************)
Panicked ==
    [panic |-> TRUE, range |-> pos(Rng(0, 0)), buf_range |-> Rng(0, 0),
     lines |-> <<>>]

ReadLines(range, buf_range, ls) ==
    [panic |-> FALSE, range |-> range, buf_range |-> buf_range, lines |-> ls]

\* &v[start..end_excl] is in bounds
SliceOK(v, start, end_excl) == start <= end_excl /\ end_excl <= Len(v)

\* line_reader.rs:159-161 and 184-186: the cache merge
mergeNoClear(st) ==
    [st EXCEPT !.eols_forw = st.eols_forw \o Reverse(st.eols_back),
               !.full = TRUE]

mergeDropBack(st) == [st EXCEPT !.eols_back = <<>>, !.full = TRUE]

merge(st) ==
    [st EXCEPT !.eols_forw = st.eols_forw \o Reverse(st.eols_back),
               !.eols_back = <<>>,
               !.full = TRUE]

(***************************************************************************)
(* The tail shared by read_forw and read_back (line_reader.rs:163-172 and  *)
(* 189-200): clamp the range to the cache, slice the cache, report first   *)
(* and last boundary as buf_range and build the lines.  The result is the  *)
(* reader after the call and the ReadLines it returned.                    *)
(***************************************************************************)
result(st, sign, lim, slice, ls) ==
    [st  |-> st,
     out |-> IF ls.ok
             THEN ReadLines([sign |-> sign, range |-> lim],
                            Rng(slice[1], slice[Len(slice)]), ls.lines)
             ELSE Panicked]

\* the slice taken from the cache: first().unwrap_or(&0), last().unwrap_or(&0)
sliced(b, st, sign, lim, slice) ==
    IF Len(slice) = 0
    THEN [st |-> st,
          out |-> ReadLines([sign |-> sign, range |-> lim], Rng(0, 0), <<>>)]
    ELSE result(st, sign, lim, slice,
                lines(b, IF sign = "Pos" THEN slice ELSE Reverse(slice)))

serveShortSlice(b, st, cache, sign, lim) ==
    IF SliceOK(cache, lim.start, lim.end)
    THEN sliced(b, st, sign, lim, SubSeq(cache, lim.start + 1, lim.end))
    ELSE [st |-> st, out |-> Panicked]

serve(b, st, cache, sign, lim) ==
    IF SliceOK(cache, lim.start, lim.end + 1)
    THEN sliced(b, st, sign, lim, SubSeq(cache, lim.start + 1, lim.end + 1))
    ELSE [st |-> st, out |-> Panicked]

\* line_reader.rs:151-162: grow the forward cache, merge when extend says so
grown_forw(st, e) ==
    IF e.ret
    THEN merge([st EXCEPT !.eols_forw = e.eols, !.eols_iter = e.it])
    ELSE [st EXCEPT !.eols_forw = e.eols, !.eols_iter = e.it]

\* line_reader.rs:163-172
serve_forw(b, st, range) ==
    serve(b, st, st.eols_forw, "Pos",
          limit(range, SatSub(Len(st.eols_forw), 1)))

(***************************************************************************)
(* LineReader::read_forw (line_reader.rs:150-173).                         *)
(***************************************************************************)
read_forw(b, st, range) ==
    IF st.full
    THEN serve_forw(b, st, range)
    ELSE serve_forw(b,
                    grown_forw(st, extend(b, st.eols_forw, st.eols_iter,
                                          "next", range.end, Len(b))),
                    range)

\* line_reader.rs:184-187: merge, then answer from the forward cache
merged_back(b, st, range) ==
    IF Len(st.eols_forw) = 0
    THEN [st |-> st, out |-> Panicked]
    ELSE read_forw(b, st, inverted(range, Len(st.eols_forw) - 1))

\* line_reader.rs:189-200
serve_back(b, st, range) ==
    serve(b, st, st.eols_back, "Neg",
          limit(range, SatSub(Len(st.eols_back), 1)))

\* line_reader.rs:176-188: the outcome of extend decides
grown_back(b, st, range, e) ==
    IF e.ret
    THEN merged_back(b, merge([st EXCEPT !.eols_back = e.eols,
                                         !.eols_iter = e.it]), range)
    ELSE serve_back(b, [st EXCEPT !.eols_back = e.eols, !.eols_iter = e.it],
                    range)

(***************************************************************************)
(* LineReader::read_back (line_reader.rs:175-201).                         *)
(***************************************************************************)
read_back(b, st, range) ==
    IF st.full
    THEN merged_back(b, merge(st), range)
    ELSE grown_back(b, st, range,
                    extend(b, st.eols_back, st.eols_iter, "rev", range.end,
                           Len(b)))

\* LineReader::read (line_reader.rs:143-148)
read(b, st, range) ==
    IF range.sign = "Pos" THEN read_forw(b, st, range.range)
                          ELSE read_back(b, st, range.range)

(***************************************************************************)
(* Navigator (main.rs).  mv is main.rs:94-109.                             *)
(***************************************************************************)
VerticalMoves ==
    {"Top", "Bottom", "LineUp", "LineDown", "PageUp", "PageDown",
     "HalfPageUp", "HalfPageDown"}

mvHalfRoundsUp(vmove, current_line_range, rws) ==
    CASE vmove = "Top"          -> pos(Rng(0, rws))
      [] vmove = "Bottom"       -> neg(Rng(0, rws))
      [] vmove = "LineUp"       -> LinesRange_shiftl(current_line_range, 1)
      [] vmove = "LineDown"     -> LinesRange_shiftr(current_line_range, 1)
      [] vmove = "PageUp"       -> LinesRange_shiftl(current_line_range, rws)
      [] vmove = "PageDown"     -> LinesRange_shiftr(current_line_range, rws)
      [] vmove = "HalfPageUp"   ->
            LinesRange_shiftl(current_line_range, (rws + 1) \div 2)
      [] vmove = "HalfPageDown" ->
            LinesRange_shiftr(current_line_range, (rws + 1) \div 2)

mv(vmove, current_line_range, rws) ==
    CASE vmove = "Top"          -> pos(Rng(0, rws))
      [] vmove = "Bottom"       -> neg(Rng(0, rws))
      [] vmove = "LineUp"       -> LinesRange_shiftl(current_line_range, 1)
      [] vmove = "LineDown"     -> LinesRange_shiftr(current_line_range, 1)
      [] vmove = "PageUp"       -> LinesRange_shiftl(current_line_range, rws)
      [] vmove = "PageDown"     -> LinesRange_shiftr(current_line_range, rws)
      [] vmove = "HalfPageUp"   -> LinesRange_shiftl(current_line_range, rws \div 2)
      [] vmove = "HalfPageDown" -> LinesRange_shiftr(current_line_range, rws \div 2)

\* Range<usize>::size_hint().0
size_hint(range) == IF range.start < range.end THEN range.end - range.start ELSE 0

\* a usize result that does not fit: a panic with overflow checks on,
\* the wrapped value without them
Fits(n) == 0 <= n /\ n <= UsizeMax

Wrap(n) == n % (UsizeMax + 1)

WrapRange(r) ==
    [sign |-> r.sign, range |-> Rng(Wrap(r.range.start), Wrap(r.range.end))]

(***************************************************************************)
(* NormalMode::move_and_read (main.rs:74-86).  checks is the build's       *)
(* overflow-checks setting: with it an overflowing usize operation panics, *)
(* without it the value wraps.  The result carries the reader, the         *)
(* ReadLines returned, what the first read returned (first), the range     *)
(* computed by mv (requested) and the range of the last read (last).       *)
(***************************************************************************)
\* main.rs:85: the second read, with the range extended by the shortfall
reread(b, r1, new_range, ext, checks, diff) ==
    IF checks /\ (~Fits(diff) \/ ~Fits(ext.range.end))
    THEN [st |-> r1.st, out |-> Panicked, first |-> r1.out,
          requested |-> new_range, last |-> new_range]
    ELSE [first |-> r1.out, requested |-> new_range, last |-> WrapRange(ext)]
         @@ read(b, r1.st, WrapRange(ext))

\* main.rs:83-86: the match on the shortfall
shortfall(b, r1, new_range, checks, diff) ==
    IF r1.out.panic \/ diff = 0
    THEN [st |-> r1.st, out |-> r1.out, first |-> r1.out,
          requested |-> new_range, last |-> new_range]
    ELSE reread(b, r1, new_range,
                LinesRange_extendl(new_range, Wrap(diff)), checks, diff)

\* main.rs:81-82
first_read(b, r1, new_range, checks) ==
    shortfall(b, r1, new_range, checks,
              size_hint(new_range.range) - Len(r1.out.lines))

\* main.rs:80-81
moved(b, st, new_range, checks) ==
    first_read(b, read(b, st, new_range), new_range, checks)

move_and_read(b, st, cur, vmove, rws, checks) ==
    moved(b, st, mv(vmove, cur, rws), checks)

(***************************************************************************)
(* State.                                                                  *)
(*   buf             the byte source (LineReader.buf)                      *)
(*   line_reader     the LineReader: eols_forw, eols_back, eols_iter, full *)
(*   req, res        the range passed to the last read and its result      *)
(*   rows            the viewport height, main.rs:26                       *)
(*   current_range   NormalMode.current_range                              *)
(*   drawn           what the last handled command had the screen draw     *)
(*   pc              where the process is: "lib" (the index used directly),*)
(*                   "start", "loop", "done", "failed", "panicked", or the *)
(*                   LinesRange methods applied (RangeSpec)                *)
(*   overflow_checks whether the build panics on integer overflow          *)
(*   raw_mode        whether the terminal is in raw mode (main.rs:160)     *)
(***************************************************************************)
VARIABLES buf, line_reader, req, res, rows, current_range, drawn, pc,
          overflow_checks, raw_mode

vars == <<buf, line_reader, req, res, rows, current_range, drawn, pc,
          overflow_checks, raw_mode>>

nav_vars == <<rows, current_range, drawn, pc, overflow_checks, raw_mode>>

NoReq == [sign |-> "None", range |-> Rng(0, 0)]

NoRes == ReadLines(NoReq, Rng(0, 0), <<>>)

NoDraw == [content |-> FALSE, lines |-> <<>>, status |-> FALSE]

Ranges ==
    {[sign |-> sg, range |-> Rng(lo, hi)] :
        sg \in {"Pos", "Neg"}, lo \in 0..MaxOrd, hi \in 0..MaxOrd}

Requests == {r \in Ranges : r.range.start <= r.range.end}

PosRequests == {r \in Requests : r.sign = "Pos"}

Init ==
    /\ buf \in Contents
    /\ line_reader = LineReader_new(buf)
    /\ req = NoReq
    /\ res = NoRes
    /\ rows = 0
    /\ current_range = NoReq
    /\ drawn = NoDraw
    /\ pc = "lib"
    /\ overflow_checks = FALSE
    /\ raw_mode = FALSE

\* one call of LineReader::read; a panicked call ends the process
Read(range) ==
    /\ pc = "lib"
    /\ ~res.panic
    /\ \E r \in {read(buf, line_reader, range)} :
           /\ line_reader' = r.st
           /\ res' = r.out
    /\ req' = range
    /\ UNCHANGED <<buf, nav_vars>>

\* the first read of a fresh index
FirstRead(range) == req = NoReq /\ Read(range)

Next == \E range \in Requests : Read(range)

ForwNext == \E range \in PosRequests : Read(range)

FreshNext == \E range \in Requests : FirstRead(range)

\* any interleaving of reads
Spec == Init /\ [][Next]_vars

\* forward-anchored reads only
ForwSpec == Init /\ [][ForwNext]_vars

\* one read of a freshly created index
FreshSpec == Init /\ [][FreshNext]_vars

(***************************************************************************)
(* The program: main (main.rs:18-44).                                      *)
(***************************************************************************)
\* Screen::draw of DrawContent takes at most rows lines (main.rs:175)
Take(s, n) == SubSeq(s, 1, Min(Len(s), n))

\* NormalMode::mk_draw_commands (main.rs:65-72) as drawn by the screen
mk_draw_commands(ls, rws) ==
    [content |-> TRUE, lines |-> Take(ls.lines, rws), status |-> TRUE]

NavInit ==
    /\ buf \in Contents
    /\ line_reader = LineReader_new(buf)
    /\ req = NoReq
    /\ res = NoRes
    /\ rows \in 0..MaxRows
    /\ current_range = NoReq
    /\ drawn = NoDraw
    /\ pc = "start"
    /\ overflow_checks \in BOOLEAN
    /\ raw_mode = TRUE

\* main.rs:26-33: the first read and the first draw
Start ==
    /\ pc = "start"
    /\ \E r \in {read(buf, line_reader, pos(Rng(0, rows)))} :
           /\ line_reader' = r.st
           /\ res' = r.out
           /\ req' = pos(Rng(0, rows))
           /\ IF r.out.panic
              THEN /\ pc' = "panicked"
                   /\ UNCHANGED <<current_range, drawn>>
              ELSE /\ current_range' = r.out.range
                   /\ \E ok \in BOOLEAN :
                        IF ok THEN /\ drawn' = mk_draw_commands(r.out, rows)
                                   /\ pc' = "loop"
                              ELSE /\ drawn' = NoDraw
                                   /\ pc' = "failed"
    /\ UNCHANGED <<buf, rows, overflow_checks, raw_mode>>

\* LinesRange's derived PartialEq (line_reader.rs:13), as used by != in
\* main.rs:58: sign and bounds are compared
LinesRange_neBoundsOnly(a, b) == a.range # b.range

LinesRange_ne(a, b) == a.sign # b.sign \/ a.range # b.range

\* NormalMode::process_move (main.rs:52-63) for Command::V, then draw
ProcessMove(vmove) ==
    /\ pc = "loop"
    /\ \E m \in {move_and_read(buf, line_reader, current_range, vmove, rows,
                                overflow_checks)} :
           /\ line_reader' = m.st
           /\ res' = m.out
           /\ req' = m.last
           /\ IF m.out.panic
              THEN /\ pc' = "panicked"
                   /\ UNCHANGED <<current_range, drawn>>
              ELSE IF LinesRange_ne(m.out.range, current_range)
              THEN /\ current_range' = m.out.range
                   /\ \E ok \in BOOLEAN :
                        IF ok THEN /\ drawn' = mk_draw_commands(m.out, rows)
                                   /\ pc' = "loop"
                              ELSE /\ drawn' = NoDraw
                                   /\ pc' = "failed"
              ELSE /\ drawn' = NoDraw
                   /\ UNCHANGED <<current_range, pc>>
    /\ UNCHANGED <<buf, rows, overflow_checks, raw_mode>>

\* Command::H: an empty list of draw commands (main.rs:38)
Horizontal ==
    /\ pc = "loop"
    /\ drawn' = NoDraw
    /\ UNCHANGED <<buf, line_reader, req, res, rows, current_range, pc,
                   overflow_checks, raw_mode>>

QuitRedraws ==
    /\ pc = "loop"
    /\ pc' = "done"
    /\ drawn' = mk_draw_commands(res, rows)
    /\ UNCHANGED <<buf, line_reader, req, res, rows, current_range,
                   overflow_checks, raw_mode>>

\* Command::Quit ends take_while (main.rs:35)
Quit ==
    /\ pc = "loop"
    /\ pc' = "done"
    /\ drawn' = NoDraw
    /\ UNCHANGED <<buf, line_reader, req, res, rows, current_range,
                   overflow_checks, raw_mode>>

NavNext ==
    \/ Start
    \/ \E vmove \in VerticalMoves : ProcessMove(vmove)
    \/ Horizontal
    \/ Quit

NavSpec == NavInit /\ [][NavNext]_vars

(***************************************************************************)
(* The LinesRange methods on their own (line_reader.rs:52-79): a range     *)
(* current_range and an amount rows are drawn, and the methods are applied *)
(* to it, the range obtained being kept in req.  pc names the methods      *)
(* applied so far: "range" (none), one method, or a shift followed by the  *)
(* opposite shift.                                                         *)
(***************************************************************************)
RangeInit ==
    /\ buf = <<>>
    /\ line_reader = LineReader_new(buf)
    /\ req = NoReq
    /\ res = NoRes
    /\ rows \in 0..MaxOrd
    /\ current_range \in Requests
    /\ drawn = NoDraw
    /\ pc = "range"
    /\ overflow_checks = FALSE
    /\ raw_mode = FALSE

\* self.shiftl(by)
Shiftl ==
    /\ \/ /\ pc = "range"
          /\ req' = LinesRange_shiftl(current_range, rows)
          /\ pc' = "shiftl"
       \/ /\ pc = "shiftr"
          /\ req' = LinesRange_shiftl(req, rows)
          /\ pc' = "shiftr.shiftl"
    /\ UNCHANGED <<buf, line_reader, res, rows, current_range, drawn,
                   overflow_checks, raw_mode>>

\* self.shiftr(by)
Shiftr ==
    /\ \/ /\ pc = "range"
          /\ req' = LinesRange_shiftr(current_range, rows)
          /\ pc' = "shiftr"
       \/ /\ pc = "shiftl"
          /\ req' = LinesRange_shiftr(req, rows)
          /\ pc' = "shiftl.shiftr"
    /\ UNCHANGED <<buf, line_reader, res, rows, current_range, drawn,
                   overflow_checks, raw_mode>>

\* self.extendl(by)
Extendl ==
    /\ pc = "range"
    /\ req' = LinesRange_extendl(current_range, rows)
    /\ pc' = "extendl"
    /\ UNCHANGED <<buf, line_reader, res, rows, current_range, drawn,
                   overflow_checks, raw_mode>>

\* self.extendr(by)
Extendr ==
    /\ pc = "range"
    /\ req' = LinesRange_extendr(current_range, rows)
    /\ pc' = "extendr"
    /\ UNCHANGED <<buf, line_reader, res, rows, current_range, drawn,
                   overflow_checks, raw_mode>>

RangeNext == Shiftl \/ Shiftr \/ Extendl \/ Extendr

RangeSpec == RangeInit /\ [][RangeNext]_vars

(***************************************************************************)
(* The file as the specification describes it, independently of the index: *)
(* a line starts at byte 0 and after every terminator, and runs up to the  *)
(* next terminator or the end of the file.  Positions are 1-based.         *)
(***************************************************************************)
Starts(b) == {p \in 1..(Len(b) + 1) : p = 1 \/ b[p - 1] = NL}

LineEnd(b, p) ==
    CHOOSE q \in p..(Len(b) + 1) :
        /\ q = Len(b) + 1 \/ b[q] = NL
        /\ \A j \in p..(q - 1) : b[j] # NL

NthStart(b, i) ==
    CHOOSE p \in Starts(b) : Cardinality({s \in Starts(b) : s < p}) = i

FileLine(b, i) == SubSeq(b, NthStart(b, i), LineEnd(b, NthStart(b, i)) - 1)

\* the lines with ordinals lo..hi-1, in file order
FileLines(b, lo, hi) == [k \in 1..(hi - lo) |-> FileLine(b, lo + k - 1)]

\* the line count of spec.md section 3: an empty file has no line and a
\* trailing terminator starts no further line
LineCount(b) == Cardinality({p \in Starts(b) : p <= Len(b)})

\* the number of spans between consecutive boundaries, which is what a
\* completely indexed LineReader knows as the total
BoundaryLines(b) == Cardinality(Starts(b))

Terminators(b) == {i \in 1..Len(b) : b[i] = NL}

\* the bytes after the last terminator
UnterminatedTail(b) ==
    SubSeq(b, 1 + (IF Terminators(b) = {} THEN 0
                   ELSE CHOOSE i \in Terminators(b) :
                            \A j \in Terminators(b) : j <= i),
           Len(b))

Width(range) == range.end - range.start

\* the total line count the index itself knows once it is complete
KnownTotal == Len(line_reader.eols_forw) - 1

(***************************************************************************)
(* C1.  On an index that has served only forward reads, read(forward       *)
(* [lo,hi)) with lo <= hi <= line count returns exactly the lines lo..hi-1 *)
(* in file order, terminators excluded.  (Checked under ForwSpec.)         *)
(***************************************************************************)
C1_ForwardReadExact ==
    (req.sign = "Pos" /\ ValidUtf8(buf) /\ req.range.end <= LineCount(buf))
        => /\ ~res.panic
           /\ res.lines = FileLines(buf, req.range.start, req.range.end)

(***************************************************************************)
(* C2.  On a freshly created index read(backward[0,k)) returns the last k  *)
(* lines of the file, top to bottom; "a\nb\nc\n" with backward[0,1) gives  *)
(* ["c"].  (Checked under FreshSpec.)                                      *)
(***************************************************************************)
C2_FreshBackwardLastLines ==
    (req.sign = "Neg" /\ req.range.start = 0 /\ ValidUtf8(buf))
        => /\ ~res.panic
           /\ res.lines =
                FileLines(buf,
                          LineCount(buf) - Min(req.range.end, LineCount(buf)),
                          LineCount(buf))

(***************************************************************************)
(* C3.  For an empty byte source every read, after any reads, returns zero *)
(* lines and does not fail.                                                *)
(***************************************************************************)
C3_EmptySourceNoLines ==
    (Len(buf) = 0 /\ req # NoReq) => (~res.panic /\ res.lines = <<>>)

(***************************************************************************)
(* C4.  For a non-empty file whose last byte is no terminator, the file    *)
(* has (terminators + 1) lines and reading the last ordinal, as            *)
(* forward[T-1,T) or as backward[0,1), returns exactly the tail bytes.     *)
(***************************************************************************)
C4_UnterminatedTailServed ==
    ( /\ Len(buf) > 0
      /\ buf[Len(buf)] # NL
      /\ ValidUtf8(buf)
      /\ \/ req = pos(Rng(Cardinality(Terminators(buf)),
                          Cardinality(Terminators(buf)) + 1))
         \/ req = neg(Rng(0, 1)) )
        => (~res.panic /\ res.lines = <<UnterminatedTail(buf)>>)

(***************************************************************************)
(* C5.  For a file of T lines and a forward request [lo,hi) with           *)
(* lo < T < hi, read returns exactly the lines lo..T-1, reports the        *)
(* materialized range forward[lo,T) and raises no error.  T is taken as    *)
(* the number of spans between boundaries, the count a complete index      *)
(* holds.                                                                  *)
(***************************************************************************)
C5_ForwardClampedToEnd ==
    ( /\ req.sign = "Pos"
      /\ ValidUtf8(buf)
      /\ req.range.start < BoundaryLines(buf)
      /\ BoundaryLines(buf) < req.range.end )
        => /\ ~res.panic
           /\ res.range = pos(Rng(req.range.start, BoundaryLines(buf)))
           /\ res.lines = FileLines(buf, req.range.start, BoundaryLines(buf))

(***************************************************************************)
(* C6.  The range materialized by a read lies inside the requested range   *)
(* in the request's anchor frame, and a read never returns more lines than *)
(* hi - lo; a request wholly past the end returns no line.                 *)
(***************************************************************************)
InRequestFrame(m) ==
    IF m.sign = req.sign THEN m.range
    ELSE Rng(KnownTotal - m.range.end, KnownTotal - m.range.start)

C6_MaterializedWithinRequest ==
    (req # NoReq /\ ~res.panic)
        => /\ Len(res.lines) <= Width(req.range)
           /\ Len(res.lines) > 0 =>
                /\ req.range.start <= InRequestFrame(res.range).start
                /\ InRequestFrame(res.range).end <= req.range.end

(***************************************************************************)
(* C7.  For a file of valid text, any prior reads and any request with     *)
(* lo <= hi, read returns a ReadLines value: no slice index out of bounds, *)
(* no unsigned underflow, no other abort.                                  *)
(***************************************************************************)
C7_ReadNeverAborts == ValidUtf8(buf) => ~res.panic

\* a request wholly before the start of the file was answered
C7_Witness ==
    /\ ValidUtf8(buf)
    /\ req.sign = "Neg"
    /\ req.range.start > BoundaryLines(buf)
    /\ ~res.panic

(***************************************************************************)
(* C8.  With viewport height H >= 1, after any sequence of navigation      *)
(* commands the navigator's current_range and every content redraw cover   *)
(* exactly min(H, T) lines.  (Checked under NavSpec; T is the number of    *)
(* spans between boundaries.)                                              *)
(***************************************************************************)
C8_FullPageShown ==
    (rows >= 1 /\ pc \in {"loop", "done"} /\ ValidUtf8(buf))
        => /\ Width(current_range.range) = Min(rows, BoundaryLines(buf))
           /\ drawn.content =>
                Len(drawn.lines) = Min(rows, BoundaryLines(buf))

C10_ReadIdempotent ==
    (req # NoReq /\ ~res.panic)
        => \E again \in {read(buf, line_reader, req).out} :
              /\ ~again.panic
              /\ again.lines = res.lines
              /\ again.buf_range = res.buf_range

\* the call just made was end-anchored, was answered from the merged forward
\* cache and returned lines
C10_Witness ==
    /\ req.sign = "Neg"
    /\ ~res.panic
    /\ line_reader.full
    /\ res.range.sign = "Pos"
    /\ Len(res.lines) >= 2

(***************************************************************************)
(* C11.  Across any sequence of reads the set of known boundary offsets    *)
(* (forward cache union backward cache) never loses or changes an element: *)
(* each cache keeps what it held as a prefix (the backward cache until it  *)
(* is merged), and a merge leaves a forward cache holding every entry of   *)
(* both caches exactly once, in strictly increasing order with the         *)
(* before-first-byte sentinel ordered first, and an empty backward cache.  *)
(***************************************************************************)
SeqSet(s) == {s[i] : i \in 1..Len(s)}

Known(st) == SeqSet(st.eols_forw) \cup SeqSet(st.eols_back)

IsPrefix(s, t) == Len(s) <= Len(t) /\ SubSeq(t, 1, Len(s)) = s

\* the position a boundary stands for: the sentinel lies before byte 0
Place(x) == IF x = UsizeMax THEN -1 ELSE x

StrictlyIncreasing(s) ==
    \A i \in 1..(Len(s) - 1) : Place(s[i]) < Place(s[i + 1])

Merged(st) ==
    /\ st.eols_back = <<>>
    /\ StrictlyIncreasing(st.eols_forw)
    /\ Cardinality(SeqSet(st.eols_forw)) = Len(st.eols_forw)

C11_CacheMonotonic ==
    [][ /\ Known(line_reader) \subseteq Known(line_reader')
        /\ IsPrefix(line_reader.eols_forw, line_reader'.eols_forw)
        /\ \/ IsPrefix(line_reader.eols_back, line_reader'.eols_back)
           \/ line_reader'.full
        /\ line_reader'.full =>
             /\ Merged(line_reader')
             /\ Len(line_reader'.eols_forw)
                  >= Len(line_reader.eols_forw) + Len(line_reader.eols_back)
      ]_vars

\* a merge has put boundaries found from the end behind boundaries found
\* from the start: the forward cache is the whole boundary sequence of a
\* file of several lines although the last forward request needed less
C11_Witness ==
    /\ line_reader.full
    /\ line_reader.eols_forw = Eols(buf)
    /\ Len(line_reader.eols_forw) >= 4
    /\ req.sign = "Neg"
    /\ req.range.end < KnownTotal

(***************************************************************************)
(* C12.  Once the completion flag is set, every read with either anchor    *)
(* returns a Start-anchored materialized range; a backward request [lo,hi) *)
(* is answered exactly as the forward request                              *)
(* [max(total-hi,0), max(total-lo,0)), total being the line count the      *)
(* index knows, and the backward cache is empty.                           *)
(***************************************************************************)
EquivalentForward(range, total) ==
    pos(Rng(IF total >= range.end THEN total - range.end ELSE 0,
            IF total >= range.start THEN total - range.start ELSE 0))

C12_CompleteServesForward ==
    (line_reader.full /\ req # NoReq /\ ~res.panic)
        => /\ res.range.sign = "Pos"
           /\ line_reader.eols_back = <<>>
           /\ req.sign = "Neg" =>
                res = read(buf, line_reader,
                           EquivalentForward(req.range, KnownTotal)).out

\* a backward request not touching the last line was answered from the
\* complete index with the lines of the equivalent forward window
C12_Witness ==
    /\ line_reader.full
    /\ req.sign = "Neg"
    /\ req.range.start >= 1
    /\ req.range.end <= KnownTotal
    /\ ~res.panic
    /\ res.range = pos(Rng(KnownTotal - req.range.end,
                           KnownTotal - req.range.start))
    /\ Len(res.lines) >= 2

(***************************************************************************)
(* C13.  process_move emits draw instructions and sets current_range to    *)
(* the new materialized range if and only if the materialized range        *)
(* returned by the (possibly re-issued) read differs from current_range in *)
(* anchor or bounds; when they are equal it emits nothing and leaves       *)
(* current_range unchanged.  Emitted instructions are either drawn or end  *)
(* the program with a draw error.  (Checked under NavSpec.)                *)
(***************************************************************************)
C13_DrawIffRangeChanged ==
    [][ (pc = "loop" /\ pc' \in {"loop", "failed"})
          => /\ (drawn'.content \/ pc' = "failed") <=> res'.range # current_range
             /\ current_range' = res'.range
             /\ drawn'.content => drawn'.lines = Take(res'.lines, rows)
             /\ res'.range = current_range => ~drawn'.status
      ]_vars

\* a move asked for another window than the one shown, the read came back
\* with the window shown, and nothing was drawn
C13_Witness ==
    /\ pc = "loop"
    /\ rows >= 2
    /\ req # current_range
    /\ res.range = current_range
    /\ Len(res.lines) >= 2
    /\ ~drawn.content

(***************************************************************************)
(* C14.  When the navigator's current range is forward[0,w), each of       *)
(* LineUp, HalfPageUp and PageUp yields an unchanged materialized range,   *)
(* issues no draw call and leaves the state (current range, index, loop)   *)
(* unchanged.  (Checked under NavSpec.)                                    *)
(***************************************************************************)
UpMoves == {"LineUp", "HalfPageUp", "PageUp"}

AtTop == current_range.sign = "Pos" /\ current_range.range.start = 0

C14_UpAtTopIsNoOp ==
    [][ \A vmove \in UpMoves :
          (AtTop /\ ProcessMove(vmove))
            => /\ ~res'.panic
               /\ res'.range = current_range
               /\ req' = current_range
               /\ drawn' = NoDraw
               /\ UNCHANGED <<current_range, line_reader, pc>>
      ]_vars

\* the window shown is forward[0,w), narrower than a page, and the command
\* just handled asked for that same window and drew nothing
C14_Witness ==
    /\ pc = "loop"
    /\ AtTop
    /\ Width(current_range.range) >= 1
    /\ Width(current_range.range) < rows
    /\ req = current_range
    /\ Len(res.lines) = Width(current_range.range)
    /\ ~drawn.content

(***************************************************************************)
(* C15.  Given the current range r and viewport height H, the range        *)
(* requested for a command is: Top -> forward[0,H); Bottom ->              *)
(* backward[0,H); LineUp/LineDown -> r shifted toward start/end by 1;      *)
(* PageUp/PageDown -> r shifted by H; HalfPageUp/HalfPageDown -> r shifted *)
(* by floor(H/2); it is the same whatever the state of the index.          *)
(* (Checked under NavSpec, in every state the loop can be in.)             *)
(***************************************************************************)
\* a window moved by k lines in the file: toward the start the ordinals of
\* a Start-anchored window fall (not below 0, width kept) and the
\* distances of an End-anchored window rise; toward the end the reverse
Lowered(range, k) ==
    IF range.start >= k THEN Rng(range.start - k, range.end - k)
                        ELSE Rng(0, range.end - range.start)

Raised(range, k) == Rng(range.start + k, range.end + k)

TowardStart(r, k) ==
    [sign |-> r.sign,
     range |-> IF r.sign = "Pos" THEN Lowered(r.range, k)
                                 ELSE Raised(r.range, k)]

TowardEnd(r, k) ==
    [sign |-> r.sign,
     range |-> IF r.sign = "Pos" THEN Raised(r.range, k)
                                 ELSE Lowered(r.range, k)]

HalfFloor(h) == CHOOSE q \in 0..h : 2 * q <= h /\ h < 2 * (q + 1)

RequestedFor(vmove, r, h) ==
    CASE vmove = "Top"          -> [sign |-> "Pos", range |-> Rng(0, h)]
      [] vmove = "Bottom"       -> [sign |-> "Neg", range |-> Rng(0, h)]
      [] vmove = "LineUp"       -> TowardStart(r, 1)
      [] vmove = "LineDown"     -> TowardEnd(r, 1)
      [] vmove = "PageUp"       -> TowardStart(r, h)
      [] vmove = "PageDown"     -> TowardEnd(r, h)
      [] vmove = "HalfPageUp"   -> TowardStart(r, HalfFloor(h))
      [] vmove = "HalfPageDown" -> TowardEnd(r, HalfFloor(h))

C15_RequestedRange ==
    pc = "loop"
        => \A vmove \in VerticalMoves :
              move_and_read(buf, line_reader, current_range, vmove, rows,
                            overflow_checks).requested
                = RequestedFor(vmove, current_range, rows)

\* the window shown is End-anchored and lies above the last line: it was
\* requested by shifting an End-anchored window toward the start
C15_Witness ==
    /\ pc = "loop"
    /\ rows >= 1
    /\ ~line_reader.full
    /\ current_range.sign = "Neg"
    /\ current_range.range.start = 1
    /\ req = current_range
    /\ drawn.content

(***************************************************************************)
(* C16.  For every viewport height H >= 0 and every sequence of commands,  *)
(* the first read issued for a command returns no more lines than the      *)
(* width of the requested range, so requested - returned in unsigned       *)
(* arithmetic never wraps or underflows.  (Checked under NavSpec.)         *)
(***************************************************************************)
C16_ShortfallNeverUnderflows ==
    pc = "loop"
        => \A vmove \in VerticalMoves :
              \E m \in {move_and_read(buf, line_reader, current_range, vmove,
                                      rows, overflow_checks)} :
                  ~m.first.panic
                      => Len(m.first.lines) <= size_hint(m.requested.range)

(***************************************************************************)
(* C17.  For any LinesRange r and amount k for which no clamping to 0 is   *)
(* triggered, shifting r toward the start by k and the result toward the   *)
(* end by k gives r again, same anchor and same bounds: for a              *)
(* forward-anchored r with lo >= k and for every backward-anchored r.      *)
(* (Checked under RangeSpec.)                                              *)
(***************************************************************************)
C17_ShiftRoundTrip ==
    ( /\ pc = "shiftl.shiftr"
      /\ current_range.sign = "Pos" => current_range.range.start >= rows )
        => req = current_range

\* a backward-anchored range nearer to the end than the amount made the
\* round trip
C17_Witness ==
    /\ pc = "shiftl.shiftr"
    /\ current_range.sign = "Neg"
    /\ rows >= 2
    /\ current_range.range.start < rows
    /\ current_range.range.end > current_range.range.start
    /\ req = current_range

(***************************************************************************)
(* C18.  For every LinesRange r of either anchor and every amount by >= 0, *)
(* shifting r toward the start or toward the end returns a range with the  *)
(* same anchor, the same width hi - lo and lo <= hi; when the shift would  *)
(* take the raw lower bound below 0, the lower bound is 0 and the width is *)
(* still that of r (nothing underflows).  (Checked under RangeSpec.)       *)
(***************************************************************************)
\* the shift just applied lowers the raw bounds
LowersRaw ==
    \/ pc = "shiftl" /\ current_range.sign = "Pos"
    \/ pc = "shiftr" /\ current_range.sign = "Neg"

C18_ShiftKeepsWidth ==
    pc \in {"shiftl", "shiftr"}
        => /\ req.sign = current_range.sign
           /\ 0 <= req.range.start
           /\ req.range.start <= req.range.end
           /\ Width(req.range) = Width(current_range.range)
           /\ (LowersRaw /\ current_range.range.start < rows)
                => req.range.start = 0
           /\ (LowersRaw /\ current_range.range.start >= rows)
                => req.range.start = current_range.range.start - rows
           /\ ~LowersRaw
                => req.range.start = current_range.range.start + rows

\* a backward-anchored range of several lines was shifted toward the end by
\* more than its distance from the end
C18_Witness ==
    /\ pc = "shiftr"
    /\ current_range.sign = "Neg"
    /\ current_range.range.start >= 1
    /\ current_range.range.start < rows
    /\ Width(current_range.range) >= 2
    /\ req = neg(Rng(0, Width(current_range.range)))

(***************************************************************************)
(* C19.  Shifting and extending act in the file-relative direction         *)
(* whatever the anchor: for a file of T lines, a backward-anchored range b *)
(* with hi <= T and its equivalent forward range                           *)
(* f = forward[T - b.hi, T - b.lo), and any k with no clamping, each of    *)
(* shift toward start, shift toward end, extend toward start and extend    *)
(* toward end applied to b is equivalent, under the same conversion, to    *)
(* the same operation applied to f; extend moves exactly one edge and      *)
(* leaves the other unchanged.  (Checked under RangeSpec.)                 *)
(***************************************************************************)
\* the forward-anchored range equivalent to r in a file of total lines
Equivalent(r, total) ==
    IF r.sign = "Neg" THEN pos(inverted(r.range, total)) ELSE r

\* the method pc names, applied to r
Applied(method, r, by) ==
    CASE method = "shiftl"  -> LinesRange_shiftl(r, by)
      [] method = "shiftr"  -> LinesRange_shiftr(r, by)
      [] method = "extendl" -> LinesRange_extendl(r, by)
      [] method = "extendr" -> LinesRange_extendr(r, by)

\* neither the operation on b nor the one on f clamps in a file of total
\* lines
NoClamping(method, b, by, total) ==
    /\ b.range.end <= total
    /\ method \in {"shiftl", "extendl"} => b.range.end + by <= total
    /\ method \in {"shiftr", "extendr"} => b.range.start >= by

Totals == 0..(MaxOrd + MaxOrd)

C19_AnchorDuality ==
    pc \in {"shiftl", "shiftr", "extendl", "extendr"}
        => /\ current_range.sign = "Neg" =>
                \A total \in Totals :
                    NoClamping(pc, current_range, rows, total)
                        => Equivalent(req, total)
                             = Applied(pc, Equivalent(current_range, total),
                                       rows)
           /\ pc = "extendl" =>
                /\ Equivalent(req, MaxOrd + MaxOrd).range.end
                     = Equivalent(current_range, MaxOrd + MaxOrd).range.end
                /\ Width(req.range)
                     = Width(current_range.range)
                         + (IF current_range.sign = "Pos"
                            THEN Min(rows, current_range.range.start)
                            ELSE rows)
           /\ pc = "extendr" =>
                /\ Equivalent(req, MaxOrd + MaxOrd).range.start
                     = Equivalent(current_range, MaxOrd + MaxOrd).range.start
                /\ Width(req.range)
                     = Width(current_range.range)
                         + (IF current_range.sign = "Neg"
                            THEN Min(rows, current_range.range.start)
                            ELSE rows)

\* a backward-anchored range above the last line was extended toward the
\* start: its distance to the end is kept and its far bound grew
C19_Witness ==
    /\ pc = "extendl"
    /\ current_range.sign = "Neg"
    /\ current_range.range.start >= 1
    /\ Width(current_range.range) >= 1
    /\ rows >= 2
    /\ req = neg(Rng(current_range.range.start,
                     current_range.range.end + rows))

(***************************************************************************)
(* C20.  Once a Quit command is taken from the input the control loop      *)
(* terminates: Quit itself triggers no read and no draw, and after it no   *)
(* command is handled, so no read or draw is issued.  (Checked under       *)
(* NavSpec; "done" is the loop ended by Quit.)                             *)
(***************************************************************************)
C20_QuitEndsLoop ==
    [][ /\ pc # "done"
        /\ pc' = "done" =>
             /\ pc = "loop"
             /\ ~drawn'.content
             /\ ~drawn'.status
             /\ UNCHANGED <<buf, line_reader, req, res, rows, current_range>>
      ]_vars

\* the loop was ended by Quit after moves had been handled
C20_Witness ==
    /\ pc = "done"
    /\ req.sign = "Neg"
    /\ Len(res.lines) >= 2
    /\ drawn = NoDraw

(***************************************************************************)
(* C21.  In every ReadLines result the reported byte span [start,end) is a *)
(* well-formed span of the file, 0 <= start <= end <= file length, and     *)
(* the returned lines with the terminators between them fit inside it; for *)
(* forward reads starting at line 0 and for reads served from the backward *)
(* cache as well.                                                          *)
(***************************************************************************)
RECURSIVE TotalBytes(_)
TotalBytes(ls) ==
    IF Len(ls) = 0 THEN 0
    ELSE Len(ls[1]) + TotalBytes(SubSeq(ls, 2, Len(ls)))

C21_ByteSpanWellFormed ==
    (req # NoReq /\ ~res.panic)
        => /\ 0 <= res.buf_range.start
           /\ res.buf_range.start <= res.buf_range.end
           /\ res.buf_range.end <= Len(buf)
           /\ Len(res.lines) > 0 =>
                TotalBytes(res.lines) + Len(res.lines) - 1
                    <= res.buf_range.end - res.buf_range.start

(***************************************************************************)
(* C22.  A read whose window contains a line with invalid (non-UTF-8)      *)
(* bytes does not abort the process: the call returns, and the index       *)
(* answers the same request again afterwards.                              *)
(***************************************************************************)
C22_InvalidTextRecoverable ==
    (req # NoReq /\ ~ValidUtf8(buf))
        => /\ ~res.panic
           /\ ~read(buf, line_reader, req).out.panic

(***************************************************************************)
(* C23.  On every exit path after the terminal's raw mode has been         *)
(* enabled, the loop ending on Quit and a draw failure propagated as the   *)
(* DrawError, teardown restoring the terminal mode has run when the        *)
(* program exits.  (Checked under NavSpec.)                                *)
(***************************************************************************)
C23_TeardownOnExit == pc \in {"done", "failed"} => ~raw_mode

(***************************************************************************)
(* C24.  Whenever the completion flag is set, after any reads of either    *)
(* anchor (zero-width requests included), the forward cache is exactly the *)
(* before-first-byte sentinel, then every newline offset of the file in    *)
(* increasing order, then the file length, and the backward cache is       *)
(* empty: completion is never set while a newline offset is undiscovered.  *)
(***************************************************************************)
\* 0-based offsets of the terminators of b
NewlineOffsetSet(b) == {i - 1 : i \in Terminators(b)}

WholeBoundaryList(b, cache) ==
    /\ Len(cache) = Cardinality(Terminators(b)) + 2
    /\ cache[1] = UsizeMax
    /\ cache[Len(cache)] = Len(b)
    /\ {cache[i] : i \in 2..(Len(cache) - 1)} = NewlineOffsetSet(b)
    /\ StrictlyIncreasing(SubSeq(cache, 1, Len(cache) - 1))

C24_CompleteMeansWholeIndex ==
    line_reader.full
        => /\ WholeBoundaryList(buf, line_reader.eols_forw)
           /\ line_reader.eols_back = <<>>

(***************************************************************************)
(* C25.  After any interleaving of forward and backward reads, every line  *)
(* returned is the byte span strictly between two consecutive terminators  *)
(* of the file (or the file start / file end): no returned line contains a *)
(* terminator byte, and the lines are consecutive lines of the file in     *)
(* ascending file-offset order.                                            *)
(***************************************************************************)
C25_LinesAreFileLines ==
    (req # NoReq /\ ~res.panic /\ Len(res.lines) > 0)
        => /\ \A i \in 1..Len(res.lines) :
                \A j \in 1..Len(res.lines[i]) : res.lines[i][j] # NL
           /\ \E first \in 0..(BoundaryLines(buf) - 1) :
                /\ first + Len(res.lines) <= BoundaryLines(buf)
                /\ res.lines = FileLines(buf, first, first + Len(res.lines))

(***************************************************************************)
(* C26.  On an index that is not yet complete, a backward request [lo,hi)  *)
(* with hi >= T, T the total line count (hi = T included), makes the       *)
(* backward scan reach the start of the byte source: the read sets the     *)
(* completion flag, merges the caches and returns the Start-anchored       *)
(* materialized range [max(T-hi,0), T-lo).  T is the number of spans       *)
(* between boundaries.                                                     *)
(***************************************************************************)
C26_BackwardReachingStartCompletes ==
    [][ ( /\ ~line_reader.full
          /\ req'.sign = "Neg"
          /\ req'.range.end >= BoundaryLines(buf)
          /\ req'.range.start <= BoundaryLines(buf)
          /\ ~res'.panic )
          => /\ line_reader'.full
             /\ line_reader'.eols_back = <<>>
             /\ res'.range
                  = pos(Rng(0, BoundaryLines(buf) - req'.range.start))
      ]_vars

(***************************************************************************)
(* C27.  Scanning is lazy.  While the completion flag is unset a read      *)
(* leaves the cache of its anchor with at most max(what it held, hi + 1)   *)
(* boundaries and does not touch the other cache, so the forward cache     *)
(* never exceeds 1 + the largest hi of the forward requests made and the   *)
(* backward cache 1 + the largest hi of the backward requests; a read      *)
(* whose hi + 1 boundaries are cached takes nothing from the scanner; and  *)
(* the scanner hands out each boundary at most once: it only advances,     *)
(* what it hands out is what the caches gain, and no boundary is cached    *)
(* twice.                                                                  *)
(***************************************************************************)
Max(a, b) == IF a >= b THEN a ELSE b

Cached(st) == Len(st.eols_forw) + Len(st.eols_back)

\* the boundaries the scanner hands out between two of its positions
Taken(it, it2) == (it2.front - it.front) + (it.back - it2.back)

C27_LazyScanning ==
    [][ /\ ~line_reader'.full =>
             /\ req'.sign = "Pos" =>
                  /\ Len(line_reader'.eols_forw)
                       <= Max(Len(line_reader.eols_forw), req'.range.end + 1)
                  /\ line_reader'.eols_back = line_reader.eols_back
             /\ req'.sign = "Neg" =>
                  /\ Len(line_reader'.eols_back)
                       <= Max(Len(line_reader.eols_back), req'.range.end + 1)
                  /\ line_reader'.eols_forw = line_reader.eols_forw
        /\ ( \/ line_reader.full
             \/ /\ req'.sign = "Pos"
                /\ req'.range.end + 1 <= Len(line_reader.eols_forw)
             \/ /\ req'.sign = "Neg"
                /\ req'.range.end + 1 <= Len(line_reader.eols_back) )
             => line_reader'.eols_iter = line_reader.eols_iter
        /\ line_reader'.eols_iter.front >= line_reader.eols_iter.front
        /\ line_reader'.eols_iter.back <= line_reader.eols_iter.back
        /\ Taken(line_reader.eols_iter, line_reader'.eols_iter)
             = Cached(line_reader') - Cached(line_reader)
        /\ Cardinality(Known(line_reader')) = Cached(line_reader')
      ]_vars

\* an incomplete index with boundaries cached from both ends has answered a
\* forward request from what it had cached beyond the request
C27_Witness ==
    /\ ~line_reader.full
    /\ Len(line_reader.eols_back) >= 2
    /\ req.sign = "Pos"
    /\ req.range.end + 1 < Len(line_reader.eols_forw)
    /\ Len(res.lines) >= 1

(***************************************************************************)
(* C28.  The completion flag, once set, is never cleared, and after it is  *)
(* set no read of either anchor changes the forward cache, the backward    *)
(* cache or the flag: reads on a complete index are pure lookups.          *)
(***************************************************************************)
C28_CompleteIndexIsFrozen ==
    [][ line_reader.full
          => /\ line_reader'.full
             /\ line_reader'.eols_forw = line_reader.eols_forw
             /\ line_reader'.eols_back = line_reader.eols_back
             /\ line_reader'.eols_iter = line_reader.eols_iter
      ]_vars

\* a complete index of a file of several lines has answered a forward
\* request reaching past the last line
C28_Witness ==
    /\ line_reader.full
    /\ Len(line_reader.eols_forw) >= 4
    /\ req.sign = "Pos"
    /\ req.range.end > KnownTotal
    /\ ~res.panic
    /\ res.range.range.end = KnownTotal
    /\ Len(res.lines) >= 2

(***************************************************************************)
(* C29.  In every ReadLines result, after any sequence of reads, the       *)
(* number of returned lines equals the width hi - lo of the reported       *)
(* materialized range.                                                     *)
(***************************************************************************)
C29_LinesMatchMaterializedWidth ==
    (req # NoReq /\ ~res.panic)
        => /\ res.range.range.start <= res.range.range.end
           /\ Len(res.lines) = Width(res.range.range)

\* several lines above the last line were served from the backward cache
C29_Witness ==
    /\ ~res.panic
    /\ ~line_reader.full
    /\ res.range.sign = "Neg"
    /\ res.range.range.start >= 1
    /\ Len(res.lines) >= 2
    /\ Len(res.lines) = Width(res.range.range)

(***************************************************************************)
(* C30.  With viewport height H >= 1 and a file of more than H lines, when *)
(* the window shown already ends at the last line of the file (current     *)
(* range forward[T-H,T) or backward[0,H)), each of LineDown, HalfPageDown  *)
(* and PageDown yields the same materialized range, issues no draw and     *)
(* leaves the state unchanged.  (Checked under NavSpec; T is the number of *)
(* spans between boundaries.)                                              *)
(***************************************************************************)
DownMoves == {"LineDown", "HalfPageDown", "PageDown"}

AtBottom ==
    /\ rows >= 1
    /\ BoundaryLines(buf) > rows
    /\ \/ current_range = pos(Rng(BoundaryLines(buf) - rows,
                                  BoundaryLines(buf)))
       \/ current_range = neg(Rng(0, rows))

C30_DownAtBottomIsNoOp ==
    [][ \A vmove \in DownMoves :
          (AtBottom /\ ProcessMove(vmove))
            => /\ ~res'.panic
               /\ res'.range = current_range
               /\ drawn' = NoDraw
               /\ UNCHANGED <<current_range, pc>>
      ]_vars

====
